---- MODULE Spec2Model ----
(***************************************************************************)
(* Model of sketch.js: a p5.js/WebGL sketch that loads a PLY point cloud,  *)
(* tracks its x/z extent, and cross-fades a three-stop colour gradient     *)
(* between four palettes when the viewer taps.                             *)
(*                                                                         *)
(* JavaScript numbers are IEEE-754 binary64.  They are modelled exactly:   *)
(* a finite number is sign * mantissa * 2^exponent with a 53-bit mantissa  *)
(* held in limbs, and every operation computes the exact result and rounds *)
(* it to 53 significant bits (24 for the 32-bit numbers of WebGL), ties to *)
(* even.  Exponent overflow and subnormals do not occur for the magnitudes *)
(* the model's inputs produce and are not modelled.                        *)
(***************************************************************************)
EXTENDS Integers, Sequences, FiniteSets, TLC

\* ------------------------------------------------------------------------
\* Naturals wider than TLC's integers: little-endian limbs.  Two limbs
\* multiply, and four such products add, below 2^31.
\* ------------------------------------------------------------------------
LimbBits == (31 - 3) \div 2
B == 2 ^ LimbBits

\* limb j of a, zero outside a
L(a, j) == IF j >= 1 /\ j <= Len(a) THEN a[j] ELSE 0

\* the limbs of the number whose columns (any integers) are cols[j..], plus c
RECURSIVE Carry(_, _, _)
Carry(cols, j, c) ==
    IF j > Len(cols) THEN (IF c = 0 THEN <<>> ELSE <<c>>)
    ELSE <<(cols[j] + c) % B>> \o Carry(cols, j + 1, (cols[j] + c) \div B)

\* index of the highest nonzero limb, 0 for zero
TopIndex(a) ==
    IF \A j \in 1..Len(a) : a[j] = 0 THEN 0
    ELSE CHOOSE j \in 1..Len(a) : a[j] # 0 /\ \A h \in (j + 1)..Len(a) : a[h] = 0

\* bit length of a limb
IntBitLen(n) ==
    IF n < 128
    THEN IF n < 8 THEN (IF n < 2 THEN n ELSE IF n < 4 THEN 2 ELSE 3)
         ELSE IF n < 32 THEN (IF n < 16 THEN 4 ELSE 5)
         ELSE IF n < 64 THEN 6 ELSE 7
    ELSE IF n < 1024 THEN (IF n < 256 THEN 8 ELSE IF n < 512 THEN 9 ELSE 10)
    ELSE IF n < 4096 THEN (IF n < 2048 THEN 11 ELSE 12)
    ELSE IF n < 8192 THEN 13 ELSE 14

BitLen(a) ==
    LET t == TopIndex(a)
    IN  IF t = 0 THEN 0 ELSE (t - 1) * LimbBits + IntBitLen(a[t])

\* floor(a / 2^d), in as many limbs as a
ShiftRight(a, d) ==
    LET w == d \div LimbBits
        lo == 2 ^ (d % LimbBits)
        hi == 2 ^ (LimbBits - (d % LimbBits))
    IN  [j \in 1..Len(a) |-> (L(a, j + w) \div lo) + (L(a, j + w + 1) % lo) * hi]

\* a * 2^d in n limbs, which the caller makes enough
ShiftLeft(a, d, n) ==
    LET w == d \div LimbBits
        lo == 2 ^ (d % LimbBits)
        hi == 2 ^ (LimbBits - (d % LimbBits))
    IN  [j \in 1..n |-> (L(a, j - w) % hi) * lo + (L(a, j - w - 1) \div hi)]

\* a mod 2^d = 0
LowZero(a, d) ==
    /\ \A j \in 1..(d \div LimbBits) : L(a, j) = 0
    /\ L(a, (d \div LimbBits) + 1) % (2 ^ (d % LimbBits)) = 0

\* bit d of a, bit 0 the lowest
Bit(a, d) == (L(a, (d \div LimbBits) + 1) \div (2 ^ (d % LimbBits))) % 2

\* floor(a / d) and a mod d for 0 < d < B, from limb j down with remainder r
RECURSIVE DivLimbs(_, _, _, _)
DivLimbs(a, d, j, r) ==
    IF j = 0 THEN [q |-> <<>>, r |-> r]
    ELSE LET cur == r * B + a[j]
             lower == DivLimbs(a, d, j - 1, cur % d)
         IN  [q |-> Append(lower.q, cur \div d), r |-> lower.r]

\* ------------------------------------------------------------------------
\* IEEE-754 numbers.  k is "fin", "inf" or "nan"; a finite nonzero value is
\* s * m * 2^e with 2^52 <= m < 2^53 in MantLimbs limbs; zero has m = 0,
\* e = 0, s = 1 (the program never tells -0 from 0).
\* ------------------------------------------------------------------------
Prec64 == 52 + 1
Prec32 == 23 + 1
MantLimbs == ((Prec64 + LimbBits) - 1) \div LimbBits

Fin(s, m, e) == [k |-> "fin", s |-> s, m |-> m, e |-> e]
NaN == [k |-> "nan", s |-> 1, m |-> <<0, 0, 0, 0>>, e |-> 0]
Infinity == [k |-> "inf", s |-> 1, m |-> <<0, 0, 0, 0>>, e |-> 0]
NegInfinity == [k |-> "inf", s |-> -1, m |-> <<0, 0, 0, 0>>, e |-> 0]
Zero == Fin(1, <<0, 0, 0, 0>>, 0)
\* the mantissa 2^52
MantMin == [j \in 1..MantLimbs |->
              IF j = MantLimbs THEN 2 ^ ((Prec64 - 1) % LimbBits) ELSE 0]

\* s * a * 2^e, a little more when sticky, rounded to p significant bits,
\* ties to even
Round(s, a, e, sticky, p) ==
    LET len == BitLen(a)
        d == len - p
        q == ShiftRight(a, d)
        up == /\ Bit(a, d - 1) = 1
              /\ (sticky \/ ~LowZero(a, d - 1) \/ q[1] % 2 = 1)
        q1 == IF up THEN Carry(q, 1, 1) ELSE q
    IN  IF len = 0 THEN Zero
        ELSE IF d <= 0
        THEN Fin(s, ShiftLeft(a, Prec64 - len, MantLimbs), e - (Prec64 - len))
        ELSE IF up /\ BitLen(q1) > p
        THEN Fin(s, MantMin, e + d + p - (Prec64 - 1))
        ELSE Fin(s, ShiftLeft(q1, Prec64 - p, MantLimbs), e + d - (Prec64 - p))

FromInt(n) ==
    LET a == IF n < 0 THEN -n ELSE n
    IN  Round(IF n < 0 THEN -1 ELSE 1,
              <<a % B, (a \div B) % B, a \div (B * B)>>, 0, FALSE, Prec64)

isNaN(x) == x.k = "nan"

FNeg(x) == IF x.k = "nan" \/ x = Zero THEN x ELSE [x EXCEPT !.s = -x.s]

\* mantissa a >= mantissa b
MantGe(a, b) ==
    IF a[4] # b[4] THEN a[4] > b[4]
    ELSE IF a[3] # b[3] THEN a[3] > b[3]
    ELSE IF a[2] # b[2] THEN a[2] > b[2]
    ELSE a[1] >= b[1]

\* |x| < |y| for finite nonzero x, y
MagLt(x, y) == x.e < y.e \/ (x.e = y.e /\ ~MantGe(x.m, y.m))

\* x + y rounded to p bits, x and y of at most p bits.  Beyond MaxAlign
\* bits apart the smaller operand is below a quarter of the larger one's
\* last bit and cannot change the rounded sum.
MaxAlign == 4 * LimbBits + 2
FAddP(x, y, p) ==
    IF x.k = "nan" \/ y.k = "nan" THEN NaN
    ELSE IF x.k = "inf" THEN (IF y.k = "inf" /\ y.s # x.s THEN NaN ELSE x)
    ELSE IF y.k = "inf" THEN y
    ELSE IF x = Zero THEN y
    ELSE IF y = Zero THEN x
    ELSE LET big == IF MagLt(x, y) THEN y ELSE x
             small == IF MagLt(x, y) THEN x ELSE y
             d == big.e - small.e
             wide == ShiftLeft(big.m, d, 2 * MantLimbs)
             cols == IF x.s = y.s
                     THEN [j \in 1..(2 * MantLimbs) |-> wide[j] + L(small.m, j)]
                     ELSE [j \in 1..(2 * MantLimbs) |-> wide[j] - L(small.m, j)]
         IN  IF d > MaxAlign THEN big
             ELSE Round(big.s, Carry(cols, 1, 0), small.e, FALSE, p)

FAdd(x, y) == FAddP(x, y, Prec64)
FSub(x, y) == FAddP(x, FNeg(y), Prec64)

FMul(x, y) ==
    IF x.k = "nan" \/ y.k = "nan" THEN NaN
    ELSE IF x.k = "inf" \/ y.k = "inf"
         THEN IF x = Zero \/ y = Zero THEN NaN
              ELSE IF x.s = y.s THEN Infinity ELSE NegInfinity
    ELSE IF x = Zero \/ y = Zero THEN Zero
    ELSE LET a == x.m
             b == y.m
             cols == [j \in 1..(2 * MantLimbs - 1) |->
                        a[1] * L(b, j) + a[2] * L(b, j - 1)
                        + a[3] * L(b, j - 2) + a[4] * L(b, j - 3)]
         IN  Round(x.s * y.s, Carry(cols, 1, 0), x.e + y.e, FALSE, Prec64)

\* x / d for an integer 0 < d < B: the quotient of the mantissa, extended by
\* two limbs, keeps more than 53 + 2 bits; the remainder is the sticky bit
FDivSmall(x, d) ==
    IF x.k # "fin" \/ x = Zero THEN x
    ELSE LET qr == DivLimbs(ShiftLeft(x.m, 2 * LimbBits, MantLimbs + 2), d,
                            MantLimbs + 2, 0)
         IN  Round(x.s, qr.q, x.e - 2 * LimbBits, qr.r # 0, Prec64)

\* x < y, false when either is NaN
FLt(x, y) ==
    IF x.k = "nan" \/ y.k = "nan" THEN FALSE
    ELSE IF x = y THEN FALSE
    ELSE IF x.k = "inf" THEN x.s = -1
    ELSE IF y.k = "inf" THEN y.s = 1
    ELSE IF x = Zero THEN y.s = 1
    ELSE IF y = Zero THEN x.s = -1
    ELSE IF x.s # y.s THEN x.s = -1
    ELSE IF x.s = 1 THEN MagLt(x, y)
    ELSE MagLt(y, x)

FGe(x, y) == x.k # "nan" /\ y.k # "nan" /\ ~FLt(x, y)

\* ------------------------------------------------------------------------
\* JavaScript strings are sequences of one-character strings.
\* ------------------------------------------------------------------------
RECURSIVE SplitAt(_, _, _, _)
SplitAt(str, sep, k, cur) ==
    IF k > Len(str) THEN <<cur>>
    ELSE IF str[k] = sep THEN <<cur>> \o SplitAt(str, sep, k + 1, <<>>)
    ELSE SplitAt(str, sep, k + 1, Append(cur, str[k]))

\* String.prototype.split with a one-character separator
Split(str, sep) == SplitAt(str, sep, 1, <<>>)

\* String.prototype.includes
Includes(str, pat) ==
    \E k \in 0..(Len(str) - Len(pat)) : SubSeq(str, k + 1, k + Len(pat)) = pat

RECURSIVE Join(_, _)
Join(parts, sep) ==
    IF parts = <<>> THEN <<>>
    ELSE IF Len(parts) = 1 THEN parts[1]
    ELSE parts[1] \o <<sep>> \o Join(Tail(parts), sep)

Digits == {"0", "1", "2", "3", "4", "5", "6", "7", "8", "9"}
DigitVal(c) ==
    CASE c = "0" -> 0 [] c = "1" -> 1 [] c = "2" -> 2 [] c = "3" -> 3
      [] c = "4" -> 4 [] c = "5" -> 5 [] c = "6" -> 6 [] c = "7" -> 7
      [] c = "8" -> 8 [] c = "9" -> 9
WhiteSpace == {" ", "\t", "\r", "\n"}

RECURSIVE SkipWhile(_, _, _)
SkipWhile(str, k, chars) ==
    IF k <= Len(str) /\ str[k] \in chars THEN SkipWhile(str, k + 1, chars) ELSE k

RECURSIVE DigitsVal(_, _, _)
DigitsVal(str, from, to) ==
    IF to < from THEN 0 ELSE DigitsVal(str, from, to - 1) * 10 + DigitVal(str[to])

\* parseFloat on a string: leading white space is skipped, then the longest
\* prefix of the form [+-] digits [. digits] is converted (correctly
\* rounded); NaN when that prefix holds no digit.  Exponent parts and the
\* literal Infinity are not recognised: the inputs of the model hold none.
parseFloatStr(str) ==
    LET a == SkipWhile(str, 1, WhiteSpace)
        neg == a <= Len(str) /\ str[a] = "-"
        b == IF a <= Len(str) /\ str[a] \in {"-", "+"} THEN a + 1 ELSE a
        c == SkipWhile(str, b, Digits)
        dot == c <= Len(str) /\ str[c] = "."
        d == IF dot THEN SkipWhile(str, c + 1, Digits) ELSE c
        fracLen == IF dot THEN d - (c + 1) ELSE 0
        num == DigitsVal(str, b, c - 1) * (10 ^ fracLen)
               + (IF dot THEN DigitsVal(str, c + 1, d - 1) ELSE 0)
        mag == IF fracLen = 0 THEN FromInt(num) ELSE FDivSmall(FromInt(num), 10 ^ fracLen)
    IN  IF c = b /\ fracLen = 0 THEN NaN
        ELSE IF neg THEN FNeg(mag) ELSE mag

\* parseFloat(temp[j]) for the 0-based index j; a missing element is
\* undefined, which parseFloat converts to NaN
parseFloat(temp, j) == IF j + 1 <= Len(temp) THEN parseFloatStr(temp[j + 1]) ELSE NaN

\* Float32Array / uniform1f conversion of a number
ToFloat32(x) == IF x.k # "fin" THEN x ELSE Round(x.s, x.m, x.e, FALSE, Prec32)
FAdd32(x, y) == FAddP(x, y, Prec32)
FSub32(x, y) == FAddP(x, FNeg(y), Prec32)

\* ------------------------------------------------------------------------
\* Program constants
\* ------------------------------------------------------------------------
\* Number literals of the source, each the correctly rounded binary64 value
\* of its decimal (LiteralsExact below states it)
One == Fin(1, <<0, 0, 0, 1024>>, -52)
d04 == Fin(1, <<6554, 9830, 6553, 1638>>, -54)
d06 == Fin(1, <<13107, 3276, 13107, 1228>>, -53)
d07 == Fin(1, <<9830, 6553, 9830, 1433>>, -53)
d08 == Fin(1, <<6554, 9830, 6553, 1638>>, -53)
d09 == Fin(1, <<3277, 13107, 3276, 1843>>, -53)

palettes ==
    [n \in 0..3 |->
        CASE n = 0 -> [c1 |-> <<One, d08, d09>>, c2 |-> <<One, d08, d09>>, c3 |-> <<One, d08, d09>>]
          [] n = 1 -> [c1 |-> <<d04, d06, One>>, c2 |-> <<d04, d07, One>>, c3 |-> <<d04, d07, One>>]
          [] n = 2 -> [c1 |-> <<One, d09, d06>>, c2 |-> <<One, d09, d06>>, c3 |-> <<One, d09, d06>>]
          [] n = 3 -> [c1 |-> <<d08, d09, One>>, c2 |-> <<d08, d09, One>>, c3 |-> <<d08, d09, One>>]]
palettesLength == Cardinality(DOMAIN palettes)

\* the increment of transitionProgress per frame, 0.01
progressStep == Fin(1, <<5243, 7864, 11796, 1310>>, -59)

\* the arguments of the one call parsePointCloud(response, 2500, 0, 500, 0)
scale == Fin(1, <<0, 0, 0, 1250>>, -41)
xAdd == Zero
yAdd == Fin(1, <<0, 0, 0, 2000>>, -44)
zAdd == Zero

Dec(n, d) == FDivSmall(FromInt(n), d)
LiteralsExact ==
    /\ One = FromInt(1)
    /\ d04 = Dec(4, 10) /\ d06 = Dec(6, 10) /\ d07 = Dec(7, 10)
    /\ d08 = Dec(8, 10) /\ d09 = Dec(9, 10)
    /\ progressStep = Dec(1, 100)
    /\ scale = FromInt(2500) /\ yAdd = FromInt(500)

endHeader == <<"e", "n", "d", "_", "h", "e", "a", "d", "e", "r">>

\* p5.js lerp(start, stop, amt)
lerp(start, stop, amt) == FAdd(FMul(amt, FSub(stop, start)), start)

lerpArray(a, b, t) == [n \in 1..Len(a) |-> lerp(a[n], b[n], t)]

\* the palette draw() computes for a frame
effectivePalette(start, target, progress) ==
    [c1 |-> lerpArray(start.c1, palettes[target].c1, progress),
     c2 |-> lerpArray(start.c2, palettes[target].c2, progress),
     c3 |-> lerpArray(start.c3, palettes[target].c3, progress)]

\* ------------------------------------------------------------------------
\* Inputs: the texts httpGet may deliver
\* ------------------------------------------------------------------------
MaxHeaderLines == 1
MaxDataLines == 2

Line(tokens) == Join(tokens, " ")

plyLine == <<"p", "l", "y">>
lineA == Line(<< <<"1">>, <<"2">>, <<"3">>, <<"2", "5", "5">>, <<"0">>, <<"5", "1">> >>)
lineB == Line(<< <<"-", "2">>, <<"0", ".", "5">>, <<"1">>, <<"0">>, <<"2", "5", "5">>, <<"1", "0", "2">> >>)
\* the x and z of lineA with another y
lineC == Line(<< <<"1">>, <<"7">>, <<"3">>, <<"1", "0">>, <<"2", "0">>, <<"3", "0">> >>)
\* a non-numeric x field
lineBadX == Line(<< <<"x">>, <<"2">>, <<"3">>, <<"4">>, <<"5">>, <<"6">> >>)
\* two spaces after x: split(" ") yields an empty y field
lineBadY == Line(<< <<"4">>, <<>>, <<"2">>, <<"3">>, <<"4">>, <<"5">>, <<"6">> >>)
\* no z field at all
lineBadZ == Line(<< <<"5">>, <<"2">> >>)
\* fields with a numeric prefix, and no colour fields
linePrefix == Line(<< <<"6", "x">>, <<"2", ".">>, <<".", "5", "-">> >>)

HeaderLines == {plyLine, lineA}
ValidDataLines == {lineA, lineB, lineC}
DataLines == ValidDataLines \cup {lineBadX, lineBadY, lineBadZ, linePrefix}

SeqsUpTo(S, n) == UNION {[1..k -> S] : k \in 0..n}

\* with and without a newline after the last line
Endings == {<<>>, << <<>> >>}

ParseTexts ==
    {Join(h \o <<endHeader>> \o d \o t, "\n") :
        h \in SeqsUpTo(HeaderLines, MaxHeaderLines),
        d \in SeqsUpTo(DataLines, MaxDataLines),
        t \in Endings}
    \cup
    {Join(h \o t, "\n") : h \in SeqsUpTo(HeaderLines, MaxHeaderLines), t \in Endings}

\* an empty cloud; two points apart with a malformed line between them;
\* two points sharing x and z
SystemTexts ==
    {Join(<<plyLine, endHeader, <<>> >>, "\n"),
     Join(<<plyLine, endHeader, lineB, lineBadX, lineA, <<>> >>, "\n"),
     Join(<<plyLine, endHeader, lineA, lineC, <<>> >>, "\n")}

\* ------------------------------------------------------------------------
\* State
\* ------------------------------------------------------------------------
VARIABLES
    vertices, colors,             \* the point cloud: flat x,y,z and r,g,b arrays
    minX, maxX, minZ, maxZ,       \* its extent in x and z
    currentPaletteIndex, targetPaletteIndex, transitionProgress, startPalette,
    phase,                        \* of the httpGet callback: "pending", "parsing", "loaded"
    response,                     \* the text httpGet delivered (<<>> before)
    lines, i, header,             \* the locals of parsePointCloud while it runs
    gl,                           \* WebGL state the sketch sets: buffers and uniforms
    cp,                           \* the palette the last frame computed
    lastFrame,                    \* what the last frame rendered
    lastInput,                    \* "tap" when the last handler run was mousePressed or
                                  \* touchStarted, "none" otherwise
    frames                        \* frames that advanced the current transition

cloudVars == <<vertices, colors, minX, maxX, minZ, maxZ>>
paletteVars == <<currentPaletteIndex, targetPaletteIndex, transitionProgress, startPalette>>
parseVars == <<phase, response, lines, i, header>>
vars == <<cloudVars, paletteVars, parseVars, gl, cp, lastFrame, lastInput, frames>>

noFrame == [drew |-> FALSE, count |-> 0, vT |-> <<>>]

Init ==
    /\ vertices = <<>>
    /\ colors = <<>>
    /\ minX = Infinity /\ maxX = NegInfinity
    /\ minZ = Infinity /\ maxZ = NegInfinity
    /\ currentPaletteIndex = 0
    /\ targetPaletteIndex = 0
    /\ transitionProgress = One
    /\ startPalette = palettes[0]
    /\ phase = "pending"
    /\ response = <<>>
    /\ lines = <<>> /\ i = 0 /\ header = TRUE
    /\ gl = [positionBuffer |-> <<>>, colorBuffer |-> <<>>,
             uMinX |-> Zero, uMaxX |-> Zero, uMinZ |-> Zero, uMaxZ |-> Zero,
             uColor1 |-> <<Zero, Zero, Zero>>, uColor2 |-> <<Zero, Zero, Zero>>,
             uColor3 |-> <<Zero, Zero, Zero>>]
    /\ cp = palettes[0]
    /\ lastFrame = noFrame
    /\ lastInput = "none"
    /\ frames = 0

\* ------------------------------------------------------------------------
\* The httpGet callback: parsePointCloud, then the buffers and uniforms.
\* The callback runs to completion: no frame or input event is handled
\* while phase = "parsing".
\* ------------------------------------------------------------------------
HttpResponse(text) ==
    /\ phase = "pending"
    /\ phase' = "parsing"
    /\ response' = text
    /\ lines' = Split(text, "\n")
    /\ i' = 0
    /\ header' = TRUE
    /\ lastInput' = "none"
    /\ UNCHANGED <<cloudVars, paletteVars, gl, cp, lastFrame, frames>>

\* the test that skips a line: if (isNaN(x) || isNaN(y) || isNaN(z)) continue
skipsOnlyBadX(x, y, z) == isNaN(x)
skipsLine(x, y, z) == isNaN(x) \/ isNaN(y) \/ isNaN(z)

\* the extent after a point with scaled coordinates sx, sz is stored
extentElseIf(sx, sz) ==
    [minX |-> IF FLt(sx, minX) THEN sx ELSE minX,
     maxX |-> IF FLt(sx, minX) THEN maxX ELSE IF FLt(maxX, sx) THEN sx ELSE maxX,
     minZ |-> IF FLt(sz, minZ) THEN sz ELSE minZ,
     maxZ |-> IF FLt(sz, minZ) THEN maxZ ELSE IF FLt(maxZ, sz) THEN sz ELSE maxZ]
extentAfter(sx, sz) ==
    [minX |-> IF FLt(sx, minX) THEN sx ELSE minX,
     maxX |-> IF FLt(maxX, sx) THEN sx ELSE maxX,
     minZ |-> IF FLt(sz, minZ) THEN sz ELSE minZ,
     maxZ |-> IF FLt(maxZ, sz) THEN sz ELSE maxZ]

\* one iteration of the loop of parsePointCloud
parseLoopBody ==
    LET line == lines[i + 1]
        temp == Split(line, " ")
        x == parseFloat(temp, 0)
        y == FNeg(parseFloat(temp, 1))
        z == parseFloat(temp, 2)
        r == FDivSmall(parseFloat(temp, 3), 255)
        g == FDivSmall(parseFloat(temp, 4), 255)
        b == FDivSmall(parseFloat(temp, 5), 255)
        sx == FAdd(FMul(x, scale), xAdd)
        sy == FAdd(FMul(y, scale), yAdd)
        sz == FAdd(FMul(z, scale), zAdd)
        extent == extentAfter(sx, sz)
    IN  IF Includes(line, endHeader)
        THEN header' = FALSE /\ UNCHANGED cloudVars
        ELSE /\ UNCHANGED header
             /\ IF header \/ skipsLine(x, y, z)
                THEN UNCHANGED cloudVars
                ELSE /\ vertices' = vertices \o <<sx, sy, sz>>
                     /\ colors' = colors \o <<r, g, b>>
                     /\ minX' = extent.minX
                     /\ maxX' = extent.maxX
                     /\ minZ' = extent.minZ
                     /\ maxZ' = extent.maxZ

ParseLine ==
    /\ phase = "parsing"
    /\ i < Len(lines) - 1
    /\ parseLoopBody
    /\ i' = i + 1
    /\ lastInput' = "none"
    /\ UNCHANGED <<phase, response, lines, paletteVars, gl, cp, lastFrame, frames>>

\* after the loop: the buffers are filled and the extent is sent to the shader
LoadDone ==
    /\ phase = "parsing"
    /\ ~(i < Len(lines) - 1)
    /\ gl' = [gl EXCEPT
                !.positionBuffer = [n \in 1..Len(vertices) |-> ToFloat32(vertices[n])],
                !.colorBuffer = [n \in 1..Len(colors) |-> ToFloat32(colors[n])],
                !.uMinX = ToFloat32(minX), !.uMaxX = ToFloat32(maxX),
                !.uMinZ = ToFloat32(minZ), !.uMaxZ = ToFloat32(maxZ)]
    /\ phase' = "loaded"
    /\ lines' = <<>> /\ i' = 0 /\ header' = TRUE
    /\ lastInput' = "none"
    /\ UNCHANGED <<response, cloudVars, paletteVars, cp, lastFrame, frames>>

\* ------------------------------------------------------------------------
\* The frame loop
\* ------------------------------------------------------------------------
\* The vertex shader's gradient parameter vT of the point at 0-based index n,
\* in 32-bit arithmetic on the buffer and the uniforms.  GLSL leaves the
\* quotient's rounding open, so a quotient strictly between 0 and 1 is the
\* value "(0,1)"; it leaves a division by zero undefined, so that outcome is
\* undef, the caller's choice over what an implementation may produce.
UndefinedT == {"0", "1", "NaN"}

gradientDenom ==
    FAdd32(FSub32(gl.uMaxX, gl.uMinX), FSub32(gl.uMaxZ, gl.uMinZ))

gradientT(n, undef) ==
    LET px == gl.positionBuffer[3 * n + 1]
        pz == gl.positionBuffer[3 * n + 3]
        denom == gradientDenom
        dist == FAdd32(FSub32(px, gl.uMinX), FSub32(pz, gl.uMinZ))
    IN  IF denom = Zero THEN undef
        ELSE IF ~FLt(Zero, dist) THEN "0"
        ELSE IF FGe(dist, denom) THEN "1"
        ELSE "(0,1)"

\* drawArrays(POINTS, 0, count): the vertex shader runs once per point
drawArrays(count, undef) ==
    [drew |-> TRUE, count |-> count, vT |-> [n \in 1..count |-> gradientT(n - 1, undef)]]

\* the transition block of draw(): transitionProgress and
\* currentPaletteIndex after it
tickNoClamp ==
    LET ticking == FLt(transitionProgress, One)
        added == IF ticking THEN FAdd(transitionProgress, progressStep)
                 ELSE transitionProgress
        done == ticking /\ FGe(added, One)
    IN  [progress |-> added,
         current |-> IF done THEN targetPaletteIndex ELSE currentPaletteIndex]
tickNoCommit ==
    LET ticking == FLt(transitionProgress, One)
        added == IF ticking THEN FAdd(transitionProgress, progressStep)
                 ELSE transitionProgress
        done == ticking /\ FGe(added, One)
    IN  [progress |-> IF done THEN One ELSE added,
         current |-> currentPaletteIndex]
tick ==
    LET ticking == FLt(transitionProgress, One)
        added == IF ticking THEN FAdd(transitionProgress, progressStep)
                 ELSE transitionProgress
        done == ticking /\ FGe(added, One)
    IN  [progress |-> IF done THEN One ELSE added,
         current |-> IF done THEN targetPaletteIndex ELSE currentPaletteIndex]

\* the end of draw(): what the frame may render
renderUnguarded ==
    {drawArrays(Len(vertices) \div 3, undef) : undef \in UndefinedT}
render ==
    IF Len(vertices) = 0 THEN {noFrame}
    ELSE {drawArrays(Len(vertices) \div 3, undef) : undef \in UndefinedT}

\* after: the transition block's result; palette: the frame's cp
draw ==
    \E after \in {tick} :
    \E palette \in {effectivePalette(startPalette, targetPaletteIndex, after.progress)} :
        /\ frames' = IF FLt(transitionProgress, One) THEN frames + 1 ELSE frames
        /\ transitionProgress' = after.progress
        /\ currentPaletteIndex' = after.current
        /\ cp' = palette
        /\ gl' = [gl EXCEPT
                    !.uColor1 = [n \in 1..3 |-> ToFloat32(palette.c1[n])],
                    !.uColor2 = [n \in 1..3 |-> ToFloat32(palette.c2[n])],
                    !.uColor3 = [n \in 1..3 |-> ToFloat32(palette.c3[n])]]
        /\ lastFrame' \in render
        /\ UNCHANGED <<targetPaletteIndex, startPalette>>

Draw ==
    /\ phase # "parsing"
    /\ draw
    /\ lastInput' = "none"
    /\ UNCHANGED <<cloudVars, parseVars>>

\* ------------------------------------------------------------------------
\* Input events
\* ------------------------------------------------------------------------
mousePressedNoGuard ==
    /\ startPalette' = palettes[currentPaletteIndex]
    /\ targetPaletteIndex' = (currentPaletteIndex + 1) % palettesLength
    /\ transitionProgress' = Zero
    /\ frames' = 0
    /\ UNCHANGED currentPaletteIndex
mousePressedStaleStart ==
    IF FGe(transitionProgress, One)
    THEN /\ targetPaletteIndex' = (currentPaletteIndex + 1) % palettesLength
         /\ transitionProgress' = Zero
         /\ frames' = 0
         /\ UNCHANGED <<currentPaletteIndex, startPalette>>
    ELSE UNCHANGED <<paletteVars, frames>>
mousePressedShortCycle ==
    IF FGe(transitionProgress, One)
    THEN /\ startPalette' = palettes[currentPaletteIndex]
         /\ targetPaletteIndex' = (currentPaletteIndex + 1) % (palettesLength - 1)
         /\ transitionProgress' = Zero
         /\ frames' = 0
         /\ UNCHANGED currentPaletteIndex
    ELSE UNCHANGED <<paletteVars, frames>>
mousePressed ==
    IF FGe(transitionProgress, One)
    THEN /\ startPalette' = palettes[currentPaletteIndex]
         /\ targetPaletteIndex' = (currentPaletteIndex + 1) % palettesLength
         /\ transitionProgress' = Zero
         /\ frames' = 0
         /\ UNCHANGED currentPaletteIndex
    ELSE UNCHANGED <<paletteVars, frames>>

touchStarted == mousePressed

MousePressed ==
    /\ phase # "parsing"
    /\ mousePressed
    /\ lastInput' = "tap"
    /\ UNCHANGED <<cloudVars, parseVars, gl, cp, lastFrame>>

TouchStarted ==
    /\ phase # "parsing"
    /\ touchStarted
    /\ lastInput' = "tap"
    /\ UNCHANGED <<cloudVars, parseVars, gl, cp, lastFrame>>

\* resizeCanvas changes the renderer's viewport only, no state of the sketch
windowResized == UNCHANGED <<cloudVars, paletteVars, gl, cp, lastFrame, frames>>

WindowResized ==
    /\ phase # "parsing"
    /\ windowResized
    /\ lastInput' = "none"
    /\ UNCHANGED parseVars

\* ------------------------------------------------------------------------
\* Specifications
\* ------------------------------------------------------------------------
Load == phase = "pending" /\ \E text \in SystemTexts : HttpResponse(text)

Next ==
    \/ Load
    \/ ParseLine
    \/ LoadDone
    \/ Draw
    \/ MousePressed
    \/ TouchStarted
    \/ WindowResized

Spec == Init /\ [][Next]_vars

\* parsePointCloud alone, over every text of ParseTexts
LoadAny == phase = "pending" /\ \E text \in ParseTexts : HttpResponse(text)

NextParse ==
    \/ LoadAny
    \/ ParseLine
    \/ LoadDone

SpecParse == Init /\ [][NextParse]_vars

\* ------------------------------------------------------------------------
\* Properties of the palette transition
\* ------------------------------------------------------------------------
\* the step is a run of mousePressed or touchStarted
TapStep == lastInput' = "tap"
AcceptedTap == TapStep /\ FGe(transitionProgress, One)

\* C1: a tap while transitionProgress < 1 leaves startPalette,
\* targetPaletteIndex, transitionProgress and currentPaletteIndex unchanged,
\* and nothing is queued: a transition starts (progress falls back to 0, or
\* the target or the start palette changes) only in the step of a tap that
\* arrives with transitionProgress >= 1.
C1_TapInFlightIsNoOp ==
    [][/\ (TapStep /\ FLt(transitionProgress, One)) => UNCHANGED paletteVars
       /\ (\/ transitionProgress' # transitionProgress /\ transitionProgress' = Zero
           \/ targetPaletteIndex' # targetPaletteIndex
           \/ startPalette' # startPalette) => AcceptedTap]_vars

\* a tap has just run in the middle of a transition
C1_Witness ==
    /\ lastInput = "tap"
    /\ frames > 0
    /\ FLt(transitionProgress, One)
    /\ FLt(Zero, transitionProgress)

\* C2: whenever transitionProgress is 1, the palette a frame computes equals
\* palettes[currentPaletteIndex] on all three stops and all components,
\* initially and after any number of completed transitions.
C2_RestPaletteExact ==
    transitionProgress = One =>
        effectivePalette(startPalette, targetPaletteIndex, transitionProgress)
            = palettes[currentPaletteIndex]

\* four transitions have completed, the last one a frame ago
C2_Witness ==
    /\ transitionProgress = One
    /\ frames = 100
    /\ currentPaletteIndex = 0
    /\ startPalette = palettes[3]
    /\ cp = palettes[0]

\* C3: counting the frames since an accepted tap, transitionProgress is
\* below 1 during the first 99 and never above 1; the 100th frame leaves it
\* exactly 1, its palette equal to palettes[targetPaletteIndex] and
\* currentPaletteIndex equal to targetPaletteIndex; no transition takes more
\* than 100 frames.
C3_HundredFrames ==
    /\ frames \in 0..100
    /\ ~FLt(One, transitionProgress)
    /\ frames = 0 =>
          \/ transitionProgress = Zero /\ currentPaletteIndex # targetPaletteIndex
          \/ transitionProgress = One /\ currentPaletteIndex = 0 /\ targetPaletteIndex = 0
    /\ frames \in 1..99 =>
          /\ FLt(transitionProgress, One)
          /\ currentPaletteIndex # targetPaletteIndex
    /\ frames = 100 =>
          /\ transitionProgress = One
          /\ cp = palettes[targetPaletteIndex]
          /\ currentPaletteIndex = targetPaletteIndex

\* the 100th frame of the first transition has run
C3_Witness ==
    /\ frames = 100
    /\ lastInput = "none"
    /\ transitionProgress = One
    /\ targetPaletteIndex = 1
    /\ currentPaletteIndex = 1
    /\ cp = palettes[1]

\* C9: an accepted tap sets targetPaletteIndex to the cyclic successor of
\* currentPaletteIndex and nothing else changes it; currentPaletteIndex
\* changes only in the frame where transitionProgress reaches 1, and then to
\* that target, its own cyclic successor.
C9_CyclicOrder ==
    [][/\ AcceptedTap =>
            /\ targetPaletteIndex' = (currentPaletteIndex + 1) % 4
            /\ currentPaletteIndex' = currentPaletteIndex
       /\ targetPaletteIndex' # targetPaletteIndex => AcceptedTap
       /\ currentPaletteIndex' # currentPaletteIndex =>
            /\ FLt(transitionProgress, One)
            /\ transitionProgress' = One
            /\ currentPaletteIndex' = targetPaletteIndex
            /\ currentPaletteIndex' = (currentPaletteIndex + 1) % 4]_vars

\* the cycle 0,1,2,3 has wrapped around to 0
C9_Witness ==
    /\ currentPaletteIndex = 0
    /\ targetPaletteIndex = 0
    /\ startPalette = palettes[3]
    /\ transitionProgress = One

\* C10: the palette a frame would compute right after an accepted tap equals
\* the one right before it, palettes[currentPaletteIndex].
C10_NoJumpOnAdvance ==
    [][AcceptedTap =>
         /\ effectivePalette(startPalette', targetPaletteIndex', transitionProgress')
              = effectivePalette(startPalette, targetPaletteIndex, transitionProgress)
         /\ effectivePalette(startPalette', targetPaletteIndex', transitionProgress')
              = palettes[currentPaletteIndex]]_vars

\* a tap has just been accepted at the third palette
C10_Witness ==
    /\ lastInput = "tap"
    /\ transitionProgress = Zero
    /\ currentPaletteIndex = 2
    /\ targetPaletteIndex = 3

\* ------------------------------------------------------------------------
\* Properties of rendering and of the extent
\* ------------------------------------------------------------------------
\* C4: a frame runs drawArrays only after the httpGet callback has
\* completed and only on a cloud that holds a point, and then over exactly
\* the stored points; every other frame renders nothing.
C4_NoDrawBeforeLoadOrEmpty ==
    /\ lastFrame.drew =>
          /\ phase = "loaded"
          /\ Len(vertices) > 0
          /\ lastFrame.count = Len(vertices) \div 3
    /\ (phase # "loaded" \/ Len(vertices) = 0) => lastFrame = noFrame

\* frames have run while the load was still pending, and rendered nothing
C4_Witness ==
    /\ phase = "pending"
    /\ frames > 0
    /\ lastInput = "none"
    /\ cp # palettes[0]
    /\ lastFrame = noFrame

\* C7: when the gradient denominator is zero, every point of a rendered
\* frame has gradient parameter 0.
C7_ZeroDenominatorGuarded ==
    (lastFrame.drew /\ gradientDenom = Zero) =>
        \A n \in DOMAIN lastFrame.vT : lastFrame.vT[n] = "0"

\* the x and the z coordinates of the stored points
storedX == {vertices[3 * k + 1] : k \in 0..((Len(vertices) \div 3) - 1)}
storedZ == {vertices[3 * k + 3] : k \in 0..((Len(vertices) \div 3) - 1)}
MinOf(S) == IF S = {} THEN Infinity ELSE CHOOSE m \in S : \A o \in S : ~FLt(o, m)
MaxOf(S) == IF S = {} THEN NegInfinity ELSE CHOOSE m \in S : \A o \in S : ~FLt(m, o)

\* C8: in every state the extent is the exact minimum and maximum of the
\* stored x and z values, (+inf, -inf, +inf, -inf) when nothing is stored,
\* and once loading has completed no step changes the extent or the points.
C8_ExtentExactAndFrozen ==
    /\ [](/\ minX = MinOf(storedX) /\ maxX = MaxOf(storedX)
          /\ minZ = MinOf(storedZ) /\ maxZ = MaxOf(storedZ))
    /\ [][phase = "loaded" => UNCHANGED cloudVars]_vars

\* a cloud with distinct x and z values, loaded, rendered and then tapped
C8_Witness ==
    /\ phase = "loaded"
    /\ lastFrame.drew
    /\ lastInput = "tap"
    /\ FLt(minX, maxX)
    /\ FLt(minZ, maxZ)
    /\ Len(vertices) = 6

\* ------------------------------------------------------------------------
\* Properties of parsePointCloud
\* ------------------------------------------------------------------------
\* a field written as a decimal number: [-] digits [. digits]
IsNumber(tok) ==
    LET body == IF tok # <<>> /\ tok[1] = "-" THEN Tail(tok) ELSE tok
    IN  /\ body # <<>>
        /\ \A k \in 1..Len(body) : body[k] \in Digits \cup {"."}
        /\ Cardinality({k \in 1..Len(body) : body[k] = "."}) <= 1
        /\ body[1] \in Digits
        /\ body[Len(body)] \in Digits

\* a data line of six numbers x y z r g b
IsValidDataLine(line) ==
    LET temp == Split(line, " ")
    IN  Len(temp) = 6 /\ \A j \in 1..6 : IsNumber(temp[j])

\* a field parseFloat reads no number from: missing, empty, or not starting
\* (after an optional sign) with a digit or with a point and a digit
IsNotANumber(temp, j) ==
    \/ Len(temp) < j
    \/ LET tok == temp[j]
           body == IF tok # <<>> /\ tok[1] \in {"-", "+"} THEN Tail(tok) ELSE tok
       IN  ~ \/ body # <<>> /\ body[1] \in Digits
             \/ Len(body) >= 2 /\ body[1] = "." /\ body[2] \in Digits

IsMalformedLine(line) == \E j \in 1..3 : IsNotANumber(Split(line, " "), j)

\* the point and the colour of a valid data line
pointOf(line) ==
    LET temp == Split(line, " ")
    IN  <<FAdd(FMul(parseFloatStr(temp[1]), scale), xAdd),
          FAdd(FMul(FNeg(parseFloatStr(temp[2])), scale), yAdd),
          FAdd(FMul(parseFloatStr(temp[3]), scale), zAdd)>>
colourOf(line) ==
    LET temp == Split(line, " ")
    IN  <<FDivSmall(parseFloatStr(temp[4]), 255),
          FDivSmall(parseFloatStr(temp[5]), 255),
          FDivSmall(parseFloatStr(temp[6]), 255)>>

RECURSIVE Flatten(_)
Flatten(seqs) == IF seqs = <<>> THEN <<>> ELSE Head(seqs) \o Flatten(Tail(seqs))

\* the lines of the text, without the empty piece after a final newline
textLines(text) ==
    LET all == Split(text, "\n")
    IN  IF all[Len(all)] = <<>> THEN SubSeq(all, 1, Len(all) - 1) ELSE all

\* the data lines of a text whose header ends in the sentinel line and
\* whose lines after it are all valid data lines; <<"none">> otherwise
dataLinesOf(text) ==
    LET tl == textLines(text)
        ends == {k \in 1..Len(tl) : Includes(tl[k], endHeader)}
    IN  IF ends = {} THEN <<"none">>
        ELSE LET k == CHOOSE e \in ends : \A o \in ends : e <= o
                 data == SubSeq(tl, k + 1, Len(tl))
             IN  IF \A n \in 1..Len(data) : IsValidDataLine(data[n])
                 THEN data ELSE <<"none">>

\* C5: once a text made of a header, the sentinel line and N valid data
\* lines has been parsed, the cloud holds exactly the N points of those
\* lines, in line order, each scaled, flipped and offset, with its colour
\* divided by 255.
C5_EveryValidLineParsed ==
    (phase = "loaded" /\ dataLinesOf(response) # <<"none">>) =>
        LET data == dataLinesOf(response)
        IN  /\ vertices = Flatten([n \in 1..Len(data) |-> pointOf(data[n])])
            /\ colors = Flatten([n \in 1..Len(data) |-> colourOf(data[n])])

\* the step processes the line at index i of parsePointCloud's loop
LineStep == phase = "parsing" /\ i' = i + 1

====
